---- MODULE Spec2Model ----
(***************************************************************************)
(* The pipeline driver of Falael.Audio.Sda (src/py/main.py) as a state     *)
(* machine: main walks the input files, process_file loads the track's     *)
(* fingerprint document, runs the fingerprint modules that are not cached, *)
(* saves the document and then runs the fulltrack modules, one result file *)
(* per module.  A module's return value is abstracted to its top-level     *)
(* shape: which kind of value it is, over how many chunks it was computed  *)
(* and, for an error, its message.                                         *)
(***************************************************************************)
EXTENDS Integers, Sequences, FiniteSets, TLC

(* ------------------------------ bounds --------------------------------- *)

MaxRuns == 2        \* invocations of main
MaxChunks == 1      \* the split tool cuts a track into 0..MaxChunks chunks

(* ------------------------- the module registry ------------------------- *)

MODULES_FINGERPRINT ==
  << "split",
     "stereo_correlation", "stereo_width", "stereo_phase", "sparkle",
     "harmonics", "harmonics_full_spectrum", "freq_response", "dynamics",
     "dynamics_full_spectrum", "quantization", "quantization_full_spectrum",
     "dynamic_range", "audio_quality",
     "image_fingerprint" >>

MODULES_FULLTRACK ==
  << "freq_response_fulltrack", "stereo_width_fulltrack", "image_fulltrack" >>

FingerprintNames == { MODULES_FINGERPRINT[i] : i \in 1..Len(MODULES_FINGERPRINT) }
FulltrackNames == { MODULES_FULLTRACK[i] : i \in 1..Len(MODULES_FULLTRACK) }
AllNames == FingerprintNames \cup FulltrackNames

\* the per-chunk analyses: each starts from previous["split"]["chunks"]
ChunkModules ==
  { "stereo_correlation", "stereo_width", "stereo_phase", "sparkle",
    "harmonics", "harmonics_full_spectrum", "freq_response", "dynamics",
    "dynamics_full_spectrum", "quantization", "quantization_full_spectrum" }

IndexOf(seq, name) == CHOOSE i \in 1..Len(seq) : seq[i] = name

\* values of ALWAYS_RUN: the active one and three of the commented
\* alternatives of main.py, and one that forces quantization alone
AlwaysRunChoices ==
  { {},
    {"stereo_phase"},
    {"dynamics", "dynamics_full_spectrum", "dynamic_range", "image_fingerprint"},
    {"freq_response_fulltrack", "image_fulltrack"},
    {"quantization"} }

(* ----------------------------- values ---------------------------------- *)

\* a module's return value, or the absence of a key in a document
NoKey == [kind |-> "none", n |-> 0, msg |-> ""]
Error(m) == [kind |-> "error", n |-> 0, msg |-> m]
Result(n) == [kind |-> "result", n |-> n, msg |-> ""]
Chunks(n) == [kind |-> "chunks", n |-> n, msg |-> ""]
Raised == [kind |-> "raise", n |-> 0, msg |-> ""]

EmptyDoc == [name \in FingerprintNames |-> NoKey]
Keys(d) == { name \in DOMAIN d : d[name] # NoKey }

\* a file on disk: absent, text that is not JSON, bytes that are not UTF-8
\* text, or a JSON document
AbsentFile == [st |-> "absent", doc |-> EmptyDoc]
CorruptFile == [st |-> "corrupt", doc |-> EmptyDoc]
UndecodableFile == [st |-> "undecodable", doc |-> EmptyDoc]
JsonFile(d) == [st |-> "json", doc |-> d]

\* a fulltrack result file holds one module result
AbsentResult == [st |-> "absent", val |-> NoKey]
CorruptResult == [st |-> "corrupt", val |-> NoKey]
JsonResult(v) == [st |-> "json", val |-> v]

(* ------------------------- the analysis modules ------------------------ *)

\* env: what the track is: audio in {"stereo","mono","unreadable"} (what
\* sf.read finds), tool in {"ok","fail"} (whether split gets past its checks
\* and the split tool exits with 0) and cuts, the number of files it leaves

split_process(env) ==
  IF env.tool = "fail" THEN Error("Missing or invalid split::sox_path")
  ELSE Chunks(env.cuts)

chunk_module_process(previous) ==
  IF previous["split"].kind = "chunks" /\ previous["split"].n > 0
  THEN Result(previous["split"].n)
  ELSE Error("Missing or empty split result.")

aggregator_process(previous, first, second) ==
  IF previous[first].kind # "result" THEN Error("Missing " \o first \o " result.")
  ELSE IF previous[second].kind # "result" THEN Error("Missing " \o second \o " result.")
  ELSE IF previous[first].n # previous[second].n THEN Error("Chunk count mismatch")
  ELSE Result(previous[first].n)

dynamic_range_process(previous) ==
  aggregator_process(previous, "dynamics", "quantization")

audio_quality_process(previous) ==
  aggregator_process(previous, "quantization", "harmonics")

image_fingerprint_process(previous) == Result(0)

freq_response_fulltrack_process(env) ==
  IF env.audio = "unreadable" THEN Error("Failed to load audio file") ELSE Result(0)

stereo_width_fulltrack_process(env) ==
  IF env.audio = "unreadable" THEN Error("Failed to load audio file")
  ELSE IF env.audio # "stereo"
  THEN Error("Audio file must be stereo for stereo width analysis")
  ELSE Result(0)

\* previous["freq_response_fulltrack"]["result"]: a KeyError when the key or
\* its "result" member is missing
image_fulltrack_process(previous) ==
  IF previous["freq_response_fulltrack"].kind # "result" THEN Raised ELSE Result(0)

\* module.process(copied_file_path, track_output_root, CONFIG, previous)
module_process(name, previous, env) ==
  CASE name = "split" -> split_process(env)
    [] name \in ChunkModules -> chunk_module_process(previous)
    [] name = "dynamic_range" -> dynamic_range_process(previous)
    [] name = "audio_quality" -> audio_quality_process(previous)
    [] name = "image_fingerprint" -> image_fingerprint_process(previous)
    [] name = "freq_response_fulltrack" -> freq_response_fulltrack_process(env)
    [] name = "stereo_width_fulltrack" -> stereo_width_fulltrack_process(env)
    [] name = "image_fulltrack" -> image_fulltrack_process(previous)

\* the entries of previous that a module's process reads
Dependencies(name) ==
  CASE name \in ChunkModules -> {"split"}
    [] name = "dynamic_range" -> {"dynamics", "quantization", "dynamics_full_spectrum"}
    [] name = "audio_quality" -> {"quantization", "harmonics", "harmonics_full_spectrum"}
    [] name = "image_fingerprint" ->
         {"audio_quality", "harmonics", "stereo_width", "stereo_correlation",
          "stereo_phase", "quantization", "dynamic_range", "dynamics",
          "freq_response", "sparkle"}
    [] name = "image_fulltrack" -> {"freq_response_fulltrack"}
    [] OTHER -> {}

(* ------------------- inside a per-chunk analysis module ---------------- *)

MaxBands == 3       \* the largest multiband::bands of a config

\* the modules whose result is keyed by band, the ones whose result is a bare
\* list, the ones that hand their chunks to the parallel work splitter and
\* the ones that need two channels
BandedModules ==
  { "stereo_correlation", "stereo_width", "stereo_phase", "sparkle",
    "harmonics", "freq_response", "dynamics", "quantization" }

FlatModules == ChunkModules \ BandedModules

FanOutModules ==
  { "stereo_correlation", "stereo_width", "sparkle", "harmonics",
    "freq_response", "harmonics_full_spectrum" }

StereoModules == { "stereo_correlation", "stereo_width", "stereo_phase" }

\* a config value that is not set
Missing == 0

\* config.get(key, default)
config_get(value, default) == IF value = Missing THEN default ELSE value

\* the defaults each module gives to the three multiband keys
DefaultBandParams(name) ==
  CASE name = "stereo_correlation" -> [low |-> 2000, high |-> 20000, bands |-> 6]
    [] name = "sparkle" -> [low |-> 2000, high |-> 20000, bands |-> 4]
    [] name \in {"stereo_width", "stereo_phase", "harmonics"} ->
         [low |-> 20, high |-> 21000, bands |-> 10]
    [] name = "freq_response" -> [low |-> 100, high |-> 20000, bands |-> 8]
    [] name \in {"dynamics", "quantization"} -> [low |-> 200, high |-> 21000, bands |-> 6]
    [] OTHER -> [low |-> Missing, high |-> Missing, bands |-> 0]

\* mutant of the reading of the config: quantization takes the band count
\* from a key of its own, which the config does not set
band_params_own_key(name, config) ==
  [low |-> config_get(config.low, DefaultBandParams(name).low),
   high |-> config_get(config.high, DefaultBandParams(name).high),
   bands |-> IF name = "quantization" THEN DefaultBandParams(name).bands
             ELSE config_get(config.bands, DefaultBandParams(name).bands)]

\* low_hz, high_hz, bands as the module reads them from the config
band_params(name, config) ==
  [low |-> config_get(config.low, DefaultBandParams(name).low),
   high |-> config_get(config.high, DefaultBandParams(name).high),
   bands |-> config_get(config.bands, DefaultBandParams(name).bands)]

RECURSIVE Power(_, _)
Power(b, e) == IF e = 0 THEN 1 ELSE b * Power(b, e - 1)

\* int(np.logspace(log10(low), log10(high), num=bands + 1)[i]): the whole
\* part of low * (high / low) ^ (i / bands)
IntEdge(low, high, bands, i) ==
  CHOOSE r \in low..high :
    /\ Power(r, bands) <= Power(low, bands - i) * Power(high, i)
    /\ Power(r + 1, bands) > Power(low, bands - i) * Power(high, i)

\* the band edges as the key strings show them; log_edges[i] of the code is
\* element i + 1 here
log_edges(params) ==
  [i \in 1..(params.bands + 1) |->
     IntEdge(params.low, params.high, params.bands, i - 1)]

\* f"{int(f_low)}Hz-{int(f_high)}Hz" for band i of range(bands)
range_key(edges, i) ==
  ToString(edges[i + 1]) \o "Hz-" \o ToString(edges[i + 2]) \o "Hz"

\* the keys of the bands 0..bands-1, as a module computes them for a config
module_range_keys(name, config) ==
  LET params == band_params(name, config)
  IN { range_key(log_edges(params), i) : i \in 0..(params.bands - 1) }

\* an entry of a per-chunk list: the chunk it was computed from, its numeric
\* fields ("value", "null" when they are all None, "absent" when the entry
\* has none) and its error string ("" when it has no "error" key)
NoError == ""
Entry(chunk, metrics, error) == [chunk |-> chunk, metrics |-> metrics, error |-> error]

\* str(e) of the exception sf.read raises on a file it cannot read, and of
\* the IndexError of data[:, 0] on a one-dimensional array
ReadError == "Error opening chunk file"
IndexError == "too many indices for array"

\* mutant of the per-chunk analysis: no test of the channel count, so that
\* data[:, 0] raises on a chunk that is not two-channel
chunk_entry_unchecked(name, chunk, audio) ==
  IF audio = "unreadable"
  THEN Entry(chunk, IF name = "quantization_full_spectrum" THEN "absent" ELSE "null",
             ReadError)
  ELSE IF name \in StereoModules /\ audio # "stereo"
  THEN Entry(chunk, "null", IndexError)
  ELSE Entry(chunk, "value", NoError)

\* what a module records for one chunk (in each band, for a banded module):
\* audio is what sf.read finds in the chunk file
chunk_entry(name, chunk, audio) ==
  IF audio = "unreadable"
  THEN Entry(chunk, IF name = "quantization_full_spectrum" THEN "absent" ELSE "null",
             ReadError)
  ELSE IF name \in StereoModules /\ audio # "stereo"
  THEN Entry(chunk, "null", "Not stereo")
  ELSE Entry(chunk, "value", NoError)

\* process_single_chunk of a fan-out module: for a banded module a dict from
\* band key to the chunk's entry, for harmonics_full_spectrum the entry
process_single_chunk(name, chunk, audio, ctx) ==
  IF name \in BandedModules
  THEN [key \in { range_key(ctx.log_edges, i) : i \in 0..(ctx.bands - 1) } |->
          chunk_entry(name, chunk, audio)]
  ELSE chunk_entry(name, chunk, audio)

\* the context a fan-out module hands to the splitter
build_context(name, config) ==
  IF name \in BandedModules
  THEN [log_edges |-> log_edges(band_params(name, config)),
        bands |-> band_params(name, config).bands]
  ELSE [log_edges |-> << >>, bands |-> 0]

\* mutant of the callback's use of the context: it takes a band off it
ctx_consumed(ctx) ==
  [ctx EXCEPT !.bands = IF @ > 1 THEN @ - 1 ELSE @]

\* the context after a callback ran on it: the callbacks only read it
ctx_after_callback(ctx) == ctx

\* "output[range_key] = []" for every band
empty_output(edges, bands) ==
  [key \in { range_key(edges, i) : i \in 0..(bands - 1) } |-> << >>]

RECURSIVE append_bands(_, _, _, _, _)
\* "for i in range(bands): output[range_key].append(entry)", from band i on
append_bands(output, edges, bands, i, entry) ==
  IF i >= bands THEN output
  ELSE append_bands([output EXCEPT ![range_key(edges, i)] = Append(@, entry)],
                    edges, bands, i + 1, entry)

\* "for chunk_result in chunk_results: for range_key in output.keys():
\*    if range_key in chunk_result: output[range_key].append(...)"
distribute(empty, chunk_results) ==
  [key \in DOMAIN empty |->
     LET having == SelectSeq(chunk_results, LAMBDA cr : key \in DOMAIN cr)
     IN [i \in 1..Len(having) |-> having[i][key]]]

\* previous.get("split", {}).get("chunks", [])
chunk_list_of(split) == IF split.kind = "chunks" THEN split.chunks ELSE << >>

\* mutant of the guard of the modules: the chunk list is not tested
never_missing(chunk_list) == FALSE

\* "if not chunk_list:"
missing_or_empty(chunk_list) == chunk_list = << >>

\* what process returns: {"error": msg}, {"result": output} of a banded
\* module or {"result": results} of a flat one
NoReturn == [kind |-> "none", msg |-> "", banded |-> << >>, flat |-> << >>]
ModuleError(msg) == [kind |-> "error", msg |-> msg, banded |-> << >>, flat |-> << >>]
BandedResult(output) == [kind |-> "result", msg |-> "", banded |-> output, flat |-> << >>]
FlatResult(list) == [kind |-> "result", msg |-> "", banded |-> << >>, flat |-> list]

(* ------------------------------ the state ------------------------------ *)

TrackNames == {"a.wav", "b.wav"}

VARIABLES
  track,          \* per input file: what the audio is (never written)
  fpFile,         \* per track: out/<file>/fingerprint.<file>.json
  ftFile,         \* per track and fulltrack module: fulltrack.<module>.<file>.json
  media,          \* per track: out/<file>/media/<file> exists
  input_files,    \* main: the sorted list of input files
  ALWAYS_RUN,     \* the modules flagged for a forced re-run
  run,            \* how many times main was started
  pc,             \* where the driver is
  cur,            \* main: index of file_path in input_files
  fingerprint_result,          \* process_file: the in-memory document
  fingerprint_modules_to_run,  \* process_file: the modules of this pass
  k,              \* process_file: index in fingerprint_modules_to_run
  j,              \* process_file: index in MODULES_FULLTRACK
  executed,       \* history: the modules invoked in this pass, in order
  returned,       \* history: what each of them returned in this pass
  snap,           \* history: the track, its files and ALWAYS_RUN when this pass started
  saved,          \* history: this pass wrote the fingerprint document
  outcome,        \* history: how the last call of process_file ended
  processed,      \* history: the files main handed to process_file in this run
  lastOut,        \* history: per track, each module's last return value
  completed,      \* history: the tracks on which a pass has returned
  \* one call of the parallel work splitter
  items,          \* the work items, in input order
  max_workers,    \* the size of the worker pool
  working,        \* per worker: the index of the item it works on, 0 when idle
  dispatched,     \* how many items were handed to a worker
  slots,          \* per item index: the callback's result, once it is there
  finished,       \* history: the item indices in the order of completion
  chunk_results,  \* the list the call returned
  ppc,            \* where the call is
  use_processes,  \* the execution mode: worker processes, or threads
  context,        \* the shared context of the call
  shipped,        \* per worker: the copy of the context its process was sent
  \* one call of the process function of a per-chunk analysis module
  module,         \* the name of the module
  config,         \* the three multiband values of the config
  previous_split, \* previous["split"], if there is one
  chunk_audio,    \* per chunk file: what sf.read finds in it (never written)
  output,         \* a banded module's output: per band key, the entries so far
  result_list,    \* a sequential flat module's list of entries so far
  pos,            \* a sequential module's position in the chunk list
  process_result, \* what process returned
  mpc,            \* where process is
  \* one call of the process function of split
  duration_str,   \* config "split::duration", a string of characters
  sox_path_ok,    \* config "split::sox_path" is set and names a file
  platform,       \* the operating system: "posix" or "windows" (never written)
  tool,           \* what the split tool does when run (never written)
  media_chunks,   \* the indices NNN of the files <file>.NNN.<ext> of the media directory
  media_before,   \* history: media_chunks when process was called
  sox_files,      \* the indices NNN of the files <file>NNN.<ext> the tool wrote
  expected_i,     \* the index i of the loop that deletes existing chunk files
  chunk_files,    \* the chunk files renamed so far
  tool_runs,      \* history: how many times the split tool was run
  split_result,   \* what process returned
  spc,            \* where process is
  \* one call of the process function of dynamic_range or audio_quality
  aggregator,         \* the name of the module
  first_data,         \* the result of the first banded module it reads
  second_data,        \* the result of the second banded module it reads
  full_spectrum_data, \* the result of the full-spectrum module it reads
  aggregate,          \* what process returned
  apc                 \* where process is

driverVars ==
  << track, fpFile, ftFile, media, input_files, ALWAYS_RUN, run, pc, cur,
     fingerprint_result, fingerprint_modules_to_run, k, j,
     executed, returned, snap, saved, outcome, processed, lastOut, completed >>

splitterVars ==
  << items, max_workers, working, dispatched, slots, finished, chunk_results, ppc,
     use_processes, context, shipped >>

moduleVars ==
  << module, config, previous_split, chunk_audio, output, result_list, pos,
     process_result, mpc >>

splitVars ==
  << duration_str, sox_path_ok, platform, tool, media_chunks, media_before,
     sox_files, expected_i, chunk_files, tool_runs, split_result, spc >>

aggregatorVars ==
  << aggregator, first_data, second_data, full_spectrum_data, aggregate, apc >>

vars == << driverVars, splitterVars, moduleVars, splitVars, aggregatorVars >>

(* ----------------------------- the store ------------------------------- *)

os_path_exists(file) == file.st # "absent"

\* json.load of the file; {} when it is absent or does not parse
load_existing_results(file) ==
  IF file.st = "json" THEN file.doc ELSE EmptyDoc

\* "except (json.JSONDecodeError, IOError)" does not catch the
\* UnicodeDecodeError of a file that is not UTF-8 text
load_raises(file) == file.st = "undecodable"

\* the results of the fulltrack modules whose file exists and loads non-empty
load_all_fulltrack_results(files) ==
  [name \in FulltrackNames |->
     IF os_path_exists(files[name]) /\ files[name].st = "json"
     THEN files[name].val ELSE NoKey]

save_fulltrack_result(files, name, module_result) ==
  [files EXCEPT ![name] = JsonResult(module_result)]

\* combined_previous = fingerprint_result.copy(); .update(unified)
combined_previous(doc, unified) ==
  [name \in AllNames |->
     IF name \in FulltrackNames /\ unified[name] # NoKey THEN unified[name]
     ELSE IF name \in FingerprintNames THEN doc[name]
     ELSE NoKey]

(* ------------------------- process_file, stepwise ---------------------- *)

\* mutants of the corruption check: the check left out, and the check made
\* on the absent file instead of the present one
skip_never(loaded, file) == FALSE

skip_when_absent(loaded, file) ==
  Keys(loaded) = {} /\ ~os_path_exists(file)

\* "if not fingerprint_result and os.path.exists(fingerprint_json_path)"
skip_as_corrupted(loaded, file) ==
  Keys(loaded) = {} /\ os_path_exists(file)

\* mutant of the selection: the forced modules first, then the missing ones
select_forced_first(loaded, always) ==
  SelectSeq(MODULES_FINGERPRINT, LAMBDA name : name \in always)
    \o SelectSeq(MODULES_FINGERPRINT,
                 LAMBDA name : loaded[name] = NoKey /\ name \notin always)

select_modules_to_run(loaded, always) ==
  SelectSeq(MODULES_FINGERPRINT,
            LAMBDA name : loaded[name] = NoKey \/ name \in always)

\* mutant of the assignment: the document is replaced by the new entry alone
store_alone(doc, name, ret) == [EmptyDoc EXCEPT ![name] = ret]

\* fingerprint_result[name] = module.process(...)
store_module_result(doc, name, ret) == [doc EXCEPT ![name] = ret]

\* mutant of the guard of the write: the document is never written
save_never(to_run) == FALSE

\* "if fingerprint_modules_to_run:" guards the write of the document
should_save(to_run) == to_run # << >>

file_path == input_files[cur]

\* process_file returns to main's loop, which takes the next file or ends
ReturnToMain(how) ==
  /\ outcome' = how
  /\ completed' = completed \cup {file_path}
  /\ IF cur < Len(input_files)
     THEN pc' = "track" /\ cur' = cur + 1
     ELSE pc' = "idle" /\ cur' = cur

main ==
  /\ pc = "idle"
  /\ run < MaxRuns
  /\ run' = run + 1
  /\ ALWAYS_RUN' \in AlwaysRunChoices
  /\ processed' = {}
  /\ IF input_files = << >>
     THEN pc' = "idle" /\ cur' = cur
     ELSE pc' = "track" /\ cur' = 1
  /\ UNCHANGED << track, fpFile, ftFile, media, input_files, fingerprint_result,
                  fingerprint_modules_to_run, k, j, executed, returned, snap,
                  saved, outcome, lastOut, completed >>
  /\ UNCHANGED << splitterVars, moduleVars, splitVars, aggregatorVars >>

\* lines 146-178: directories, media copy, load, corruption check, selection
process_file ==
  /\ pc = "track"
  /\ LET loaded == load_existing_results(fpFile[file_path])
     IN /\ media' = [media EXCEPT ![file_path] = TRUE]
        /\ processed' = processed \cup {file_path}
        /\ executed' = << >>
        /\ returned' = [name \in AllNames |-> NoKey]
        /\ saved' = FALSE
        /\ snap' = [file |-> file_path, always |-> ALWAYS_RUN,
                    fp |-> fpFile[file_path], ft |-> ftFile[file_path],
                    last |-> lastOut[file_path],
                    completed |-> file_path \in completed]
        /\ fingerprint_result' = loaded
        /\ k' = 1
        /\ j' = 1
        /\ IF load_raises(fpFile[file_path])
           THEN /\ fingerprint_modules_to_run' = << >>
                /\ pc' = "idle"
                /\ outcome' = "raised"
                /\ UNCHANGED << cur, completed >>
           ELSE IF skip_as_corrupted(loaded, fpFile[file_path])
           THEN /\ fingerprint_modules_to_run' = << >>
                /\ ReturnToMain("skipped")
           ELSE /\ fingerprint_modules_to_run' = select_modules_to_run(loaded, ALWAYS_RUN)
                /\ pc' = IF fingerprint_modules_to_run' = << >> THEN "save" ELSE "fp"
                /\ outcome' = "running"
                /\ UNCHANGED << cur, completed >>
  /\ UNCHANGED << track, fpFile, ftFile, input_files, ALWAYS_RUN, run, lastOut >>
  /\ UNCHANGED << splitterVars, moduleVars, splitVars, aggregatorVars >>

\* lines 181-184: one iteration of the fingerprint loop
run_fingerprint_module ==
  /\ pc = "fp"
  /\ LET name == fingerprint_modules_to_run[k]
         ret == module_process(name, fingerprint_result, track[file_path])
     IN /\ fingerprint_result' = store_module_result(fingerprint_result, name, ret)
        /\ executed' = Append(executed, name)
        /\ returned' = [returned EXCEPT ![name] = ret]
        /\ lastOut' = [lastOut EXCEPT ![file_path][name] = ret]
  /\ k' = k + 1
  /\ pc' = IF k = Len(fingerprint_modules_to_run) THEN "save" ELSE "fp"
  /\ UNCHANGED << track, fpFile, ftFile, media, input_files, ALWAYS_RUN, run, cur,
                  fingerprint_modules_to_run, j, snap, saved, outcome, processed,
                  completed >>
  /\ UNCHANGED << splitterVars, moduleVars, splitVars, aggregatorVars >>

\* lines 187-189: the document is written when a module was selected
save_fingerprint ==
  /\ pc = "save"
  /\ IF should_save(fingerprint_modules_to_run)
     THEN /\ fpFile' = [fpFile EXCEPT ![file_path] = JsonFile(fingerprint_result)]
          /\ saved' = TRUE
     ELSE UNCHANGED << fpFile, saved >>
  /\ pc' = "ft"
  /\ UNCHANGED << track, ftFile, media, input_files, ALWAYS_RUN, run, cur,
                  fingerprint_result, fingerprint_modules_to_run, k, j, executed,
                  returned, snap, outcome, processed, lastOut, completed >>
  /\ UNCHANGED << splitterVars, moduleVars, splitVars, aggregatorVars >>

\* lines 196-220: one iteration of the fulltrack loop; an exception of the
\* module leaves process_file and main (neither catches it)
run_fulltrack_module ==
  /\ pc = "ft"
  /\ LET name == MODULES_FULLTRACK[j]
         files == ftFile[file_path]
         unified == load_all_fulltrack_results(files)
         previous == combined_previous(fingerprint_result, unified)
         module_result == module_process(name, previous, track[file_path])
     IN IF os_path_exists(files[name]) /\ name \notin ALWAYS_RUN
        THEN /\ UNCHANGED << ftFile, executed, returned, lastOut >>
             /\ IF j = Len(MODULES_FULLTRACK)
                THEN ReturnToMain("returned") /\ j' = j
                ELSE j' = j + 1 /\ UNCHANGED << pc, cur, outcome, completed >>
        ELSE /\ executed' = Append(executed, name)
             /\ returned' = [returned EXCEPT ![name] = module_result]
             /\ lastOut' = [lastOut EXCEPT ![file_path][name] = module_result]
             /\ IF module_result = Raised
                THEN /\ pc' = "idle"
                     /\ outcome' = "raised"
                     /\ UNCHANGED << ftFile, cur, j, completed >>
                ELSE /\ ftFile' = [ftFile EXCEPT ![file_path] =
                                     save_fulltrack_result(files, name, module_result)]
                     /\ IF j = Len(MODULES_FULLTRACK)
                        THEN ReturnToMain("returned") /\ j' = j
                        ELSE j' = j + 1 /\ UNCHANGED << pc, cur, outcome, completed >>
  /\ UNCHANGED << track, fpFile, media, input_files, ALWAYS_RUN, run,
                  fingerprint_result, fingerprint_modules_to_run, k, snap, saved,
                  processed >>
  /\ UNCHANGED << splitterVars, moduleVars, splitVars, aggregatorVars >>

Next ==
  \/ main
  \/ process_file
  \/ run_fingerprint_module
  \/ save_fingerprint
  \/ run_fulltrack_module

(* ------------------- the save of the document, in steps ---------------- *)

\* line 188: open(fingerprint_json_path, "w") leaves the file empty, which is
\* not JSON, until json.dump has written the whole document
open_fingerprint ==
  /\ pc = "save"
  /\ IF should_save(fingerprint_modules_to_run)
     THEN /\ fpFile' = [fpFile EXCEPT ![file_path] = CorruptFile]
          /\ pc' = "dump"
     ELSE /\ UNCHANGED fpFile
          /\ pc' = "ft"
  /\ UNCHANGED << track, ftFile, media, input_files, ALWAYS_RUN, run, cur,
                  fingerprint_result, fingerprint_modules_to_run, k, j, executed,
                  returned, snap, saved, outcome, processed, lastOut, completed >>
  /\ UNCHANGED << splitterVars, moduleVars, splitVars, aggregatorVars >>

\* line 189: json.dump(fingerprint_result, f, indent=2) and the close of f
dump_fingerprint ==
  /\ pc = "dump"
  /\ fpFile' = [fpFile EXCEPT ![file_path] = JsonFile(fingerprint_result)]
  /\ saved' = TRUE
  /\ pc' = "ft"
  /\ UNCHANGED << track, ftFile, media, input_files, ALWAYS_RUN, run, cur,
                  fingerprint_result, fingerprint_modules_to_run, k, j, executed,
                  returned, snap, outcome, processed, lastOut, completed >>
  /\ UNCHANGED << splitterVars, moduleVars, splitVars, aggregatorVars >>

\* the process is stopped between two steps of a pass (killed, interrupted
\* from the keyboard, power lost); the files stay as they are
interrupt ==
  /\ pc \in {"track", "fp", "save", "dump", "ft"}
  /\ pc' = "idle"
  /\ outcome' = "interrupted"
  /\ UNCHANGED << track, fpFile, ftFile, media, input_files, ALWAYS_RUN, run, cur,
                  fingerprint_result, fingerprint_modules_to_run, k, j, executed,
                  returned, snap, saved, processed, lastOut, completed >>
  /\ UNCHANGED << splitterVars, moduleVars, splitVars, aggregatorVars >>

NextInterrupt ==
  \/ main
  \/ process_file
  \/ run_fingerprint_module
  \/ open_fingerprint
  \/ dump_fingerprint
  \/ run_fulltrack_module
  \/ interrupt

(* ---------------------- the parallel work splitter --------------------- *)

MaxItems == 3       \* the longest item list
MaxWorkers == 2     \* the largest worker pool

Pending == [chunk |-> -1]

\* _chunk_callback(chunk_index, chunk_filename, chunk_path, ctx): the entry
\* process_single_chunk builds names the chunk it was computed from
chunk_callback(chunk_index, chunk_filename) == [chunk |-> chunk_filename]

\* the callback of the call: the module's own _chunk_callback when a fan-out
\* module made the call
_chunk_callback(chunk_index, chunk_filename, ctx) ==
  IF module \in FanOutModules
  THEN process_single_chunk(module, chunk_filename, chunk_audio[chunk_filename], ctx)
  ELSE chunk_callback(chunk_index, chunk_filename)

\* mutant of the gathering: the results in the order the workers finished
gather_as_completed(results, order) ==
  [i \in 1..Len(order) |-> results[order[i]]]

\* the results are gathered by item index, whatever the completion order
gather(results, order) ==
  [i \in 1..Len(results) |-> results[i]]

\* a worker that is idle takes the next item of the list; a worker process
\* is sent a copy of the context with it
dispatch(w) ==
  /\ ppc = "running"
  /\ working[w] = 0
  /\ dispatched < Len(items)
  /\ dispatched' = dispatched + 1
  /\ working' = [working EXCEPT ![w] = dispatched + 1]
  /\ shipped' = IF use_processes THEN [shipped EXCEPT ![w] = context] ELSE shipped
  /\ UNCHANGED << items, max_workers, slots, finished, chunk_results, ppc,
                  use_processes, context >>
  /\ UNCHANGED << driverVars, moduleVars, splitVars, aggregatorVars >>

\* a worker's callback returns: its result is kept under the item's index;
\* a thread ran the callback on the shared context, a process on its copy
complete(w) ==
  /\ ppc = "running"
  /\ working[w] # 0
  /\ LET ctx == IF use_processes THEN shipped[w] ELSE context
     IN /\ slots' = [slots EXCEPT ![working[w]] =
                       _chunk_callback(working[w], items[working[w]], ctx)]
        /\ IF use_processes
           THEN /\ shipped' = [shipped EXCEPT ![w] = ctx_after_callback(ctx)]
                /\ UNCHANGED context
           ELSE /\ context' = ctx_after_callback(ctx)
                /\ UNCHANGED shipped
  /\ finished' = Append(finished, working[w])
  /\ working' = [working EXCEPT ![w] = 0]
  /\ UNCHANGED << items, max_workers, dispatched, chunk_results, ppc, use_processes >>
  /\ UNCHANGED << driverVars, moduleVars, splitVars, aggregatorVars >>

\* the join: every item is done and the call returns the gathered list
chunk_parallel_process ==
  /\ ppc = "running"
  /\ Len(finished) = Len(items)
  /\ chunk_results' = gather(slots, finished)
  /\ ppc' = "returned"
  /\ UNCHANGED << items, max_workers, working, dispatched, slots, finished,
                  use_processes, context, shipped >>
  /\ UNCHANGED << driverVars, moduleVars, splitVars, aggregatorVars >>

NextSplitter ==
  \/ \E w \in 1..MaxWorkers : w <= max_workers /\ dispatch(w)
  \/ \E w \in 1..MaxWorkers : w <= max_workers /\ complete(w)
  \/ chunk_parallel_process

(* ------------------ a per-chunk analysis module, stepwise -------------- *)

chunk_list == chunk_list_of(previous_split)

\* process up to the loop over the chunks, or up to the call of the splitter
process_begin ==
  /\ mpc = "start"
  /\ LET params == band_params(module, config)
     IN IF missing_or_empty(chunk_list)
        THEN /\ process_result' = ModuleError("Missing or empty split result.")
             /\ mpc' = "done"
             /\ UNCHANGED << output, result_list, pos, splitterVars >>
        ELSE IF module \in FanOutModules
        THEN /\ context' = build_context(module, config)
             /\ items' = chunk_list
             /\ slots' = [i \in 1..Len(chunk_list) |-> Pending]
             /\ working' = [w \in 1..MaxWorkers |-> 0]
             /\ dispatched' = 0
             /\ finished' = << >>
             /\ chunk_results' = << >>
             /\ ppc' = "running"
             /\ mpc' = "fanout"
             /\ UNCHANGED << output, result_list, pos, process_result,
                             max_workers, use_processes, shipped >>
        ELSE /\ output' = IF module \in BandedModules
                          THEN empty_output(log_edges(params), params.bands)
                          ELSE << >>
             /\ result_list' = << >>
             /\ pos' = 1
             /\ mpc' = "chunks"
             /\ UNCHANGED << process_result, splitterVars >>
  /\ UNCHANGED << module, config, previous_split, chunk_audio >>
  /\ UNCHANGED << driverVars, splitVars, aggregatorVars >>

\* one iteration of "for chunk in chunk_list:" of a sequential module
process_chunk ==
  /\ mpc = "chunks"
  /\ pos <= Len(chunk_list)
  /\ LET params == band_params(module, config)
         chunk == chunk_list[pos]
         entry == chunk_entry(module, chunk, chunk_audio[chunk])
     IN IF module \in BandedModules
        THEN /\ output' = append_bands(output, log_edges(params), params.bands, 0, entry)
             /\ UNCHANGED result_list
        ELSE /\ result_list' = Append(result_list, entry)
             /\ UNCHANGED output
  /\ pos' = pos + 1
  /\ UNCHANGED << module, config, previous_split, chunk_audio, process_result, mpc >>
  /\ UNCHANGED << driverVars, splitterVars, splitVars, aggregatorVars >>

\* the loop is over: return {"result": output}
process_return ==
  /\ mpc = "chunks"
  /\ pos > Len(chunk_list)
  /\ process_result' = IF module \in BandedModules
                      THEN BandedResult(output) ELSE FlatResult(result_list)
  /\ mpc' = "done"
  /\ UNCHANGED << module, config, previous_split, chunk_audio, output, result_list, pos >>
  /\ UNCHANGED << driverVars, splitterVars, splitVars, aggregatorVars >>

\* the splitter returned: a banded module groups the per-chunk dicts by band
\* key, harmonics_full_spectrum returns the list as it is
distribute_results ==
  /\ mpc = "fanout"
  /\ ppc = "returned"
  /\ LET params == band_params(module, config)
     IN IF module \in BandedModules
        THEN /\ output' = distribute(empty_output(log_edges(params), params.bands),
                                     chunk_results)
             /\ process_result' = BandedResult(output')
        ELSE /\ process_result' = FlatResult(chunk_results)
             /\ UNCHANGED output
  /\ mpc' = "done"
  /\ UNCHANGED << module, config, previous_split, chunk_audio, result_list, pos >>
  /\ UNCHANGED << driverVars, splitterVars, splitVars, aggregatorVars >>

NextModules ==
  \/ process_begin
  \/ process_chunk
  \/ process_return
  \/ \E w \in 1..MaxWorkers : w <= max_workers /\ dispatch(w)
  \/ \E w \in 1..MaxWorkers : w <= max_workers /\ complete(w)
  \/ chunk_parallel_process
  \/ distribute_results

(* ------------------------- split.process, stepwise --------------------- *)

MaxDuration == 5    \* the longest split::duration string, in characters
MaxStale == 2       \* chunk files with an index below MaxStale may exist before the call
MaxCuts == 2        \* the split tool writes 0..MaxCuts files

\* the characters of a duration string: a digit, the separator, a letter
DurationChars == {"1", ":", "x"}

RECURSIVE str_split(_)
\* timespan.split(":"): the parts between the separators, empty ones included
str_split(str) ==
  IF \A p \in 1..Len(str) : str[p] # ":"
  THEN << str >>
  ELSE LET first == CHOOSE p \in 1..Len(str) :
                      str[p] = ":" /\ \A q \in 1..(p - 1) : str[q] # ":"
       IN << SubSeq(str, 1, first - 1) >> \o str_split(SubSeq(str, first + 1, Len(str)))

\* int(part) raises ValueError unless the part is a non-empty run of digits
int_raises(part) == part = << >> \/ \E p \in 1..Len(part) : part[p] # "1"

RECURSIVE int(_)
\* int(part) of a run of digits
int(part) ==
  IF part = << >> THEN 0 ELSE 10 * int(SubSeq(part, 1, Len(part) - 1)) + 1

ValueError == [raised |-> TRUE, seconds |-> 0]
Seconds(n) == [raised |-> FALSE, seconds |-> n]

\* mutant of parse_timespan: the parts after the third are ignored and a part
\* that is no integer counts as 0
parse_timespan_lenient(timespan) ==
  LET parts == str_split(timespan)
      val(p) == IF p > Len(parts) \/ int_raises(parts[p]) THEN 0 ELSE int(parts[p])
  IN Seconds(val(1) + val(2) + val(3))

parse_timespan(timespan) ==
  LET parts == str_split(timespan)
  IN IF Len(parts) > 3 THEN ValueError
     ELSE IF \E p \in 1..Len(parts) : int_raises(parts[p]) THEN ValueError
     ELSE IF Len(parts) = 1 THEN Seconds(int(parts[1]))
     ELSE IF Len(parts) = 2 THEN Seconds(int(parts[1]) * 60 + int(parts[2]))
     ELSE Seconds(int(parts[1]) * 3600 + int(parts[2]) * 60 + int(parts[3]))

\* what split.process returns: {"error": msg} or {"chunks": [...], ...};
\* "raise" when an exception leaves it
SplitError(msg) == [kind |-> "error", msg |-> msg, chunks |-> << >>, duration |-> 0]
SplitChunks(list, seconds) ==
  [kind |-> "chunks", msg |-> "", chunks |-> list, duration |-> seconds]
SplitRaised == [kind |-> "raise", msg |-> "", chunks |-> << >>, duration |-> 0]
SplitNotReturned == [kind |-> "none", msg |-> "", chunks |-> << >>, duration |-> 0]

\* lines 20-28: the duration and the path of the tool are checked first
split_check_config ==
  /\ spc = "start"
  /\ IF parse_timespan(duration_str).raised
     THEN /\ split_result' = SplitError("Invalid duration format")
          /\ spc' = "done"
     ELSE IF ~sox_path_ok
     THEN /\ split_result' = SplitError("Missing or invalid split::sox_path")
          /\ spc' = "done"
     ELSE /\ spc' = "delete"
          /\ UNCHANGED split_result
  /\ expected_i' = 0
  /\ UNCHANGED << duration_str, sox_path_ok, platform, tool, media_chunks,
                  media_before, sox_files, chunk_files, tool_runs >>
  /\ UNCHANGED << driverVars, splitterVars, moduleVars, aggregatorVars >>

\* lines 39-47: one iteration of the loop that removes <file>.000.<ext>,
\* <file>.001.<ext>, ... and stops at the first index that has no file
split_delete_existing ==
  /\ spc = "delete"
  /\ IF expected_i \in media_chunks
     THEN /\ media_chunks' = media_chunks \ {expected_i}
          /\ expected_i' = expected_i + 1
          /\ UNCHANGED spc
     ELSE /\ spc' = "sox"
          /\ UNCHANGED << media_chunks, expected_i >>
  /\ UNCHANGED << duration_str, sox_path_ok, platform, tool, media_before,
                  sox_files, chunk_files, tool_runs, split_result >>
  /\ UNCHANGED << driverVars, splitterVars, moduleVars, aggregatorVars >>

\* lines 49-65: the tool is run; it writes <file>001.<ext>, <file>002.<ext>,
\* ... or exits with an error
split_run_sox ==
  /\ spc = "sox"
  /\ tool_runs' = tool_runs + 1
  /\ IF tool.exit = "fail"
     THEN /\ split_result' = SplitError("sox failed")
          /\ spc' = "done"
          /\ UNCHANGED sox_files
     ELSE /\ sox_files' = 1..tool.cuts
          /\ spc' = "rename"
          /\ UNCHANGED split_result
  /\ UNCHANGED << duration_str, sox_path_ok, platform, tool, media_chunks,
                  media_before, expected_i, chunk_files >>
  /\ UNCHANGED << driverVars, splitterVars, moduleVars, aggregatorVars >>

\* lines 68-83: one iteration of the loop over the sorted files of the tool:
\* the i-th is renamed to <file>.<i>.<ext>; os.rename replaces an existing
\* file on POSIX and raises FileExistsError on Windows
split_rename ==
  /\ spc = "rename"
  /\ sox_files # {}
  /\ LET sox_file == CHOOSE f \in sox_files : \A g \in sox_files : f <= g
         i == Len(chunk_files)
     IN IF i \in media_chunks /\ platform = "windows"
        THEN /\ split_result' = SplitRaised
             /\ spc' = "done"
             /\ UNCHANGED << media_chunks, sox_files, chunk_files >>
        ELSE /\ media_chunks' = media_chunks \cup {i}
             /\ sox_files' = sox_files \ {sox_file}
             /\ chunk_files' = Append(chunk_files, i)
             /\ UNCHANGED << split_result, spc >>
  /\ UNCHANGED << duration_str, sox_path_ok, platform, tool, media_before,
                  expected_i, tool_runs >>
  /\ UNCHANGED << driverVars, splitterVars, moduleVars, aggregatorVars >>

\* lines 85-89
split_return ==
  /\ spc = "rename"
  /\ sox_files = {}
  /\ split_result' = SplitChunks(chunk_files, parse_timespan(duration_str).seconds)
  /\ spc' = "done"
  /\ UNCHANGED << duration_str, sox_path_ok, platform, tool, media_chunks,
                  media_before, sox_files, expected_i, chunk_files, tool_runs >>
  /\ UNCHANGED << driverVars, splitterVars, moduleVars, aggregatorVars >>

NextSplit ==
  \/ split_check_config
  \/ split_delete_existing
  \/ split_run_sox
  \/ split_rename
  \/ split_return

(* ------------------- the aggregators dynamic_range, audio_quality ------ *)

\* None, in a field of an entry
None == "null"

\* entry.get(field)
dict_get(entry, field) == IF field \in DOMAIN entry THEN entry[field] ELSE None

\* the number a full-spectrum module measures on a chunk, already rounded
Measured(chunk) == "v" \o ToString(chunk)

\* harmonics_full_spectrum.process_single_chunk
harmonics_full_spectrum_entry(chunk, audio) ==
  IF audio = "unreadable"
  THEN [chunk |-> chunk,
        overall_spectral_flatness_ratio |-> None,
        std_overall_spectral_flatness_ratio |-> None,
        error |-> ReadError]
  ELSE [chunk |-> chunk,
        overall_spectral_flatness_ratio |-> Measured(chunk),
        std_overall_spectral_flatness_ratio |-> Measured(chunk)]

\* the entry of dynamics_full_spectrum.process for one chunk (its other six
\* numeric fields are left out)
dynamics_full_spectrum_entry(chunk, audio) ==
  IF audio = "unreadable"
  THEN [chunk |-> chunk, avg_crest_factor_db |-> None, error |-> ReadError]
  ELSE [chunk |-> chunk, avg_crest_factor_db |-> Measured(chunk)]

\* lookup.get(chunk_name) of the lookup built from the entries whose field is
\* not None; a later entry of the same chunk replaces an earlier one
lookup_get(data, field, chunk_name) ==
  LET hits == { p \in 1..Len(data) :
                  data[p].chunk = chunk_name /\ dict_get(data[p], field) # None }
  IN IF hits = {} THEN None
     ELSE dict_get(data[CHOOSE p \in hits : \A q \in hits : q <= p], field)

\* [chunk.get("chunk") for chunk in band_data]
chunk_names(band_data) == [p \in 1..Len(band_data) |-> band_data[p].chunk]

count_mismatch(a, b, band) == Len(a[band]) # Len(b[band])

\* mutant of the validation: the chunk names are not compared
name_mismatch_unchecked(a, b, band) == FALSE

name_mismatch(a, b, band) == chunk_names(a[band]) # chunk_names(b[band])

\* the error returns of the validation, none when the two results pass (the
\* messages are kept up to the band key, without the counts they go on
\* with); the
\* loop over set(a.keys()) visits the bands in no fixed order, so the band
\* that is reported is any band that fails
validation_errors(a, b, first, second) ==
  IF DOMAIN a = {} THEN { ModuleError("Missing " \o first \o " result.") }
  ELSE IF DOMAIN b = {} THEN { ModuleError("Missing " \o second \o " result.") }
  ELSE IF DOMAIN a # DOMAIN b THEN { ModuleError("Band mismatch") }
  ELSE { ModuleError(IF count_mismatch(a, b, band)
                     THEN "Chunk count mismatch in band " \o band
                     ELSE "Chunk name mismatch in band " \o band) :
           band \in { bd \in DOMAIN a :
                        count_mismatch(a, b, bd) \/ name_mismatch(a, b, bd) } }

RECURSIVE str_join(_, _)
\* sep.join(messages); None ("" here) when there is no message
str_join(sep, messages) ==
  IF messages = << >> THEN NoError
  ELSE IF Len(messages) = 1 THEN messages[1]
  ELSE messages[1] \o sep \o str_join(sep, Tail(messages))

\* error_messages.append(f"{label}: {error}") when the entry has an error
labelled(label, error) ==
  IF error # NoError THEN << label \o ": " \o error >> ELSE << >>

\* dynamic_range.py:58-111: the two ratios are numbers when the dynamics
\* entry has its peak and rms (the noise floor falls back to a constant)
dynamic_range_entry(dynamics_chunk, quantization_chunk, dynamics_full_spectrum_data) ==
  [chunk |-> dynamics_chunk.chunk,
   metrics |-> IF dynamics_chunk.metrics = "value" THEN "value" ELSE None,
   overall_avg_crest_factor_db |->
     lookup_get(dynamics_full_spectrum_data, "avg_crest_factor_db", dynamics_chunk.chunk),
   error |-> str_join("; ", labelled("dynamics", dynamics_chunk.error)
                              \o labelled("quantization", quantization_chunk.error))]

\* calculate_sinad_for_chunk: sf.read of the chunk file
sinad_error(audio) == IF audio = "unreadable" THEN ReadError ELSE NoError

\* audio_quality.py:140-198; an entry without message, which the code builds
\* without an error field, has the error NoError here
audio_quality_entry(quantization_chunk, harmonics_chunk, harmonics_full_spectrum_data, audio) ==
  [chunk |-> quantization_chunk.chunk,
   metrics |-> IF quantization_chunk.metrics = "value" THEN "value" ELSE None,
   spectral_flatness_ratio |->
     lookup_get(harmonics_full_spectrum_data, "spectral_flatness_ratio",
                quantization_chunk.chunk),
   avg_sinad_db |-> IF audio = "unreadable" THEN None ELSE "value",
   error |-> str_join("; ", labelled("quantization", quantization_chunk.error)
                              \o labelled("harmonics", harmonics_chunk.error)
                              \o labelled("sinad", sinad_error(audio)))]

\* dynamic_range.process
dynamic_range ==
  /\ apc = "start"
  /\ aggregator = "dynamic_range"
  /\ LET errors == validation_errors(first_data, second_data, "dynamics", "quantization")
     IN IF errors # {}
        THEN aggregate' \in errors
        ELSE aggregate' = BandedResult(
               [band \in DOMAIN first_data |->
                  [p \in 1..Len(first_data[band]) |->
                     dynamic_range_entry(first_data[band][p], second_data[band][p],
                                         full_spectrum_data)]])
  /\ apc' = "done"
  /\ UNCHANGED << aggregator, first_data, second_data, full_spectrum_data >>
  /\ UNCHANGED << driverVars, splitterVars, moduleVars, splitVars >>

\* audio_quality.process
audio_quality ==
  /\ apc = "start"
  /\ aggregator = "audio_quality"
  /\ LET errors == validation_errors(first_data, second_data, "quantization", "harmonics")
     IN IF errors # {}
        THEN aggregate' \in errors
        ELSE aggregate' = BandedResult(
               [band \in DOMAIN first_data |->
                  [p \in 1..Len(first_data[band]) |->
                     audio_quality_entry(first_data[band][p], second_data[band][p],
                                         full_spectrum_data,
                                         chunk_audio[first_data[band][p].chunk])]])
  /\ apc' = "done"
  /\ UNCHANGED << aggregator, first_data, second_data, full_spectrum_data >>
  /\ UNCHANGED << driverVars, splitterVars, moduleVars, splitVars >>

NextAggregators ==
  \/ dynamic_range
  \/ audio_quality

(* --------------------------- initial states ---------------------------- *)

Envs ==
  { env \in [audio : {"stereo", "mono", "unreadable"}, tool : {"ok", "fail"},
             cuts : 0..MaxChunks] : env.tool = "fail" => env.cuts = 0 }

RECURSIVE RunModules(_, _, _)
\* the document an uninterrupted pass over the first i modules builds
RunModules(doc, i, env) ==
  IF i = 0 THEN doc
  ELSE LET before == RunModules(doc, i - 1, env)
           name == MODULES_FINGERPRINT[i]
       IN store_module_result(before, name, module_process(name, before, env))

FullPass(env) == RunModules(EmptyDoc, Len(MODULES_FINGERPRINT), env)

Restrict(doc, keys) ==
  [name \in FingerprintNames |-> IF name \in keys THEN doc[name] ELSE NoKey]

\* the key sets of the documents found on disk: written by a pass, with some
\* keys taken out again to have them recomputed
CachedKeySets ==
  { FingerprintNames,
    FingerprintNames \ {"dynamics", "dynamic_range"},
    {"split"} }

FingerprintFiles(env) ==
  {AbsentFile, CorruptFile, UndecodableFile, JsonFile(EmptyDoc)}
    \cup { JsonFile(Restrict(FullPass(env), keys)) : keys \in CachedKeySets }

FulltrackFileChoices(name, env) ==
  LET first == freq_response_fulltrack_process(env)
      previous == [n \in AllNames |->
                     IF n = "freq_response_fulltrack" THEN first ELSE NoKey]
      value == module_process(name, previous, env)
  IN {AbsentResult, CorruptResult}
       \cup (IF value = Raised THEN {} ELSE {JsonResult(value)})

FulltrackFiles(env) ==
  { f \in [FulltrackNames -> {AbsentResult, CorruptResult}
                               \cup {JsonResult(Result(0))}
                               \cup {JsonResult(Error(m)) :
                                       m \in {"Failed to load audio file",
                                              "Audio file must be stereo for stereo width analysis"}}] :
      \A name \in FulltrackNames : f[name] \in FulltrackFileChoices(name, env) }

DefaultEnv == [audio |-> "stereo", tool |-> "ok", cuts |-> 1]

StartOfDriver ==
  /\ ALWAYS_RUN = {}
  /\ run = 0
  /\ pc = "idle"
  /\ cur = 1
  /\ fingerprint_result = EmptyDoc
  /\ fingerprint_modules_to_run = << >>
  /\ k = 1
  /\ j = 1
  /\ executed = << >>
  /\ returned = [name \in AllNames |-> NoKey]
  /\ snap = [file |-> "a.wav", always |-> {},
             fp |-> fpFile["a.wav"], ft |-> ftFile["a.wav"],
             last |-> [name \in AllNames |-> NoKey],
             completed |-> FALSE]
  /\ saved = FALSE
  /\ outcome = "none"
  /\ processed = {}
  /\ lastOut = [t \in TrackNames |-> [name \in AllNames |-> NoKey]]
  /\ completed = {}
  /\ media = [t \in TrackNames |->
                os_path_exists(fpFile[t])
                  \/ \E name \in FulltrackNames : os_path_exists(ftFile[t][name])]

NoContext == [log_edges |-> << >>, bands |-> 0]

SplitterIdle ==
  /\ items = << >>
  /\ max_workers = 1
  /\ working = [w \in 1..MaxWorkers |-> 0]
  /\ dispatched = 0
  /\ slots = << >>
  /\ finished = << >>
  /\ chunk_results = << >>
  /\ ppc = "idle"
  /\ use_processes = FALSE
  /\ context = NoContext
  /\ shipped = [w \in 1..MaxWorkers |-> NoContext]

\* the three multiband values of CONFIG
CONFIG == [low |-> 20, high |-> 21000, bands |-> 10]

\* the names of the chunk files: the ordinal in the file name
ChunkFiles == 0..(MaxItems - 1)

ModuleIdle ==
  /\ module = "none"
  /\ config = CONFIG
  /\ previous_split = [kind |-> "none", chunks |-> << >>]
  /\ chunk_audio = [c \in ChunkFiles |-> "stereo"]
  /\ output = << >>
  /\ result_list = << >>
  /\ pos = 1
  /\ process_result = NoReturn
  /\ mpc = "idle"

NoTool == [exit |-> "ok", cuts |-> 0]

SplitIdle ==
  /\ duration_str = << >>
  /\ sox_path_ok = FALSE
  /\ platform = "posix"
  /\ tool = NoTool
  /\ media_chunks = {}
  /\ media_before = {}
  /\ sox_files = {}
  /\ expected_i = 0
  /\ chunk_files = << >>
  /\ tool_runs = 0
  /\ split_result = SplitNotReturned
  /\ spc = "idle"

NoData == << >>

AggregatorIdle ==
  /\ aggregator = "none"
  /\ first_data = NoData
  /\ second_data = NoData
  /\ full_spectrum_data = << >>
  /\ aggregate = NoReturn
  /\ apc = "idle"

\* one input file, any state of its result files
Init ==
  /\ input_files = << "a.wav" >>
  /\ \E env \in Envs :
       /\ track = [t \in TrackNames |-> IF t = "a.wav" THEN env ELSE DefaultEnv]
       /\ \E fp \in FingerprintFiles(env) :
            fpFile = [t \in TrackNames |-> IF t = "a.wav" THEN fp ELSE AbsentFile]
       /\ \E ft \in FulltrackFiles(env) :
            ftFile = [t \in TrackNames |->
                        IF t = "a.wav" THEN ft
                        ELSE [name \in FulltrackNames |-> AbsentResult]]
  /\ StartOfDriver
  /\ SplitterIdle
  /\ ModuleIdle
  /\ SplitIdle
  /\ AggregatorIdle

Spec == Init /\ [][Next]_vars

\* two input files; their fingerprint files absent or unparsable, no
\* fulltrack result yet
InitMain ==
  /\ input_files = << "a.wav", "b.wav" >>
  /\ track \in [TrackNames -> Envs]
  /\ fpFile \in [TrackNames -> {AbsentFile, CorruptFile}]
  /\ ftFile = [t \in TrackNames |-> [name \in FulltrackNames |-> AbsentResult]]
  /\ StartOfDriver
  /\ SplitterIdle
  /\ ModuleIdle
  /\ SplitIdle
  /\ AggregatorIdle

SpecMain == InitMain /\ [][Next]_vars

\* one input file with no result yet, or with a document of a pass that got
\* as far as split
InitInterrupt ==
  /\ input_files = << "a.wav" >>
  /\ \E env \in Envs :
       /\ track = [t \in TrackNames |-> IF t = "a.wav" THEN env ELSE DefaultEnv]
       /\ \E fp \in {AbsentFile, JsonFile(Restrict(FullPass(env), {"split"}))} :
            fpFile = [t \in TrackNames |-> IF t = "a.wav" THEN fp ELSE AbsentFile]
  /\ ftFile = [t \in TrackNames |-> [name \in FulltrackNames |-> AbsentResult]]
  /\ StartOfDriver
  /\ SplitterIdle
  /\ ModuleIdle
  /\ SplitIdle
  /\ AggregatorIdle

\* the passes of the driver, open to interruption
SpecInterrupt == InitInterrupt /\ [][NextInterrupt]_vars

\* the driver at rest, for the calls looked at on their own
DriverIdle ==
  /\ input_files = << "a.wav" >>
  /\ track = [t \in TrackNames |-> DefaultEnv]
  /\ fpFile = [t \in TrackNames |-> AbsentFile]
  /\ ftFile = [t \in TrackNames |-> [name \in FulltrackNames |-> AbsentResult]]
  /\ StartOfDriver

\* the item lists: the chunks 0..n-1 of a track, in any order
ItemLists ==
  UNION { { s \in [1..n -> 0..(n - 1)] : \A a, b \in 1..n : s[a] = s[b] => a = b } :
          n \in 0..MaxItems }

InitSplitter ==
  /\ items \in ItemLists
  /\ max_workers \in 1..MaxWorkers
  /\ working = [w \in 1..MaxWorkers |-> 0]
  /\ dispatched = 0
  /\ slots = [i \in 1..Len(items) |-> Pending]
  /\ finished = << >>
  /\ chunk_results = << >>
  /\ ppc = "running"
  /\ use_processes \in BOOLEAN
  /\ context = NoContext
  /\ shipped = [w \in 1..MaxWorkers |-> NoContext]
  /\ DriverIdle
  /\ ModuleIdle
  /\ SplitIdle
  /\ AggregatorIdle

SpecSplitter == InitSplitter /\ [][NextSplitter]_vars

\* previous["split"]: no entry, a top-level error, or the chunk list
\* <file>.000, <file>.001, ... of a split into n chunks
SplitEntries ==
  { [kind |-> "none", chunks |-> << >>], [kind |-> "error", chunks |-> << >>] }
    \cup { [kind |-> "chunks", chunks |-> [i \in 1..n |-> i - 1]] : n \in 0..MaxItems }

\* configs that set the three multiband keys: one band or MaxBands bands
\* over one octave or two
Configs ==
  { [low |-> 1, high |-> h, bands |-> b] : h \in {2, 4}, b \in {1, MaxBands} }

\* one call of a per-chunk module's process on any split entry and config
InitModules ==
  /\ module \in ChunkModules
  /\ config \in Configs
  /\ previous_split \in SplitEntries
  /\ chunk_audio \in [ChunkFiles -> {"stereo", "mono", "unreadable"}]
  /\ \A c \in ChunkFiles : c >= Len(chunk_list) => chunk_audio[c] = "stereo"
  /\ output = << >>
  /\ result_list = << >>
  /\ pos = 1
  /\ process_result = NoReturn
  /\ mpc = "start"
  /\ items = << >>
  /\ max_workers = IF module \in FanOutModules THEN MaxWorkers ELSE 1
  /\ working = [w \in 1..MaxWorkers |-> 0]
  /\ dispatched = 0
  /\ slots = << >>
  /\ finished = << >>
  /\ chunk_results = << >>
  /\ ppc = "idle"
  /\ use_processes \in (IF module \in FanOutModules THEN BOOLEAN ELSE {FALSE})
  /\ context = NoContext
  /\ shipped = [w \in 1..MaxWorkers |-> NoContext]
  /\ DriverIdle
  /\ SplitIdle
  /\ AggregatorIdle

SpecModules == InitModules /\ [][NextModules]_vars

\* configs that leave multiband keys out: the band count, or the two
\* cutoff frequencies
PartialConfigs ==
  { [low |-> 1, high |-> 5, bands |-> Missing],
    [low |-> Missing, high |-> Missing, bands |-> 1] }

\* one call of a banded module's process on a config that sets the three
\* multiband keys or leaves some out
InitDefaults ==
  /\ module \in BandedModules
  /\ config \in Configs \cup PartialConfigs
  /\ previous_split \in SplitEntries
  /\ chunk_audio \in [ChunkFiles -> {"stereo", "unreadable"}]
  /\ \A c \in ChunkFiles : c >= Len(chunk_list) => chunk_audio[c] = "stereo"
  /\ output = << >>
  /\ result_list = << >>
  /\ pos = 1
  /\ process_result = NoReturn
  /\ mpc = "start"
  /\ items = << >>
  /\ max_workers = IF module \in FanOutModules THEN MaxWorkers ELSE 1
  /\ working = [w \in 1..MaxWorkers |-> 0]
  /\ dispatched = 0
  /\ slots = << >>
  /\ finished = << >>
  /\ chunk_results = << >>
  /\ ppc = "idle"
  /\ use_processes = FALSE
  /\ context = NoContext
  /\ shipped = [w \in 1..MaxWorkers |-> NoContext]
  /\ DriverIdle
  /\ SplitIdle
  /\ AggregatorIdle

SpecDefaults == InitDefaults /\ [][NextModules]_vars

\* the result of a banded module over the chunk list, as the module builds it
fresh_banded(name, keys, chunks, audio) ==
  [key \in keys |->
     [p \in 1..Len(chunks) |-> chunk_entry(name, chunks[p], audio[chunks[p]])]]

\* a result as the module builds it, and results that differ from it the way
\* an entry cached under another split or config does: no result, a band
\* less, a band more, an entry less in a band, another chunk in an entry
Variants(data) ==
  {data, NoData}
    \cup { [key \in DOMAIN data \ {gone} |-> data[key]] : gone \in DOMAIN data }
    \cup { [key \in DOMAIN data \cup {"0Hz-1Hz"} |->
              IF key \in DOMAIN data THEN data[key] ELSE << >>] }
    \cup { [data EXCEPT ![key] = SubSeq(@, 1, Len(@) - 1)] : key \in DOMAIN data }
    \cup UNION { { [data EXCEPT ![key][p].chunk = (@ + 1) % MaxItems] :
                     p \in 1..Len(data[key]) } : key \in DOMAIN data }

\* the two banded modules an aggregator reads, and its full-spectrum one
FirstName == IF aggregator = "dynamic_range" THEN "dynamics" ELSE "quantization"
SecondName == IF aggregator = "dynamic_range" THEN "quantization" ELSE "harmonics"

\* one call of an aggregator: one upstream result as its module builds it
\* from the chunk list, the other any variant of what its module builds
InitAggregators ==
  /\ aggregator \in {"dynamic_range", "audio_quality"}
  /\ module = "none"
  /\ config \in Configs
  /\ previous_split \in { e \in SplitEntries : e.chunks # << >> }
  /\ chunk_audio \in [ChunkFiles -> {"stereo", "unreadable"}]
  /\ \A c \in ChunkFiles : c >= Len(chunk_list) => chunk_audio[c] = "stereo"
  /\ output = << >>
  /\ result_list = << >>
  /\ pos = 1
  /\ process_result = NoReturn
  /\ mpc = "idle"
  /\ LET keys == module_range_keys(FirstName, config)
         first == fresh_banded(FirstName, keys, chunk_list, chunk_audio)
         second == fresh_banded(SecondName, keys, chunk_list, chunk_audio)
     IN \/ first_data = first /\ second_data \in Variants(second)
        \/ first_data \in Variants(first) /\ second_data = second
  /\ LET fresh == [p \in 1..Len(chunk_list) |->
                     IF aggregator = "dynamic_range"
                     THEN dynamics_full_spectrum_entry(chunk_list[p], chunk_audio[chunk_list[p]])
                     ELSE harmonics_full_spectrum_entry(chunk_list[p], chunk_audio[chunk_list[p]])]
     IN full_spectrum_data \in {fresh, << >>}
  /\ aggregate = NoReturn
  /\ apc = "start"
  /\ DriverIdle
  /\ SplitterIdle
  /\ SplitIdle

SpecAggregators == InitAggregators /\ [][NextAggregators]_vars

\* the strings of at most MaxDuration characters
Durations ==
  UNION { [1..n -> DurationChars] : n \in 0..MaxDuration }

\* what the tool does: it exits with an error, or leaves 0..MaxCuts files
Tools ==
  { [exit |-> "fail", cuts |-> 0] } \cup { [exit |-> "ok", cuts |-> n] : n \in 0..MaxCuts }

\* one call of split.process: any duration string, the path of the tool
\* valid or not, any set of chunk files left in the media directory
InitSplit ==
  /\ duration_str \in Durations
  /\ sox_path_ok \in BOOLEAN
  /\ platform \in {"posix", "windows"}
  /\ tool \in Tools
  /\ media_chunks \in SUBSET (0..(MaxStale - 1))
  /\ media_before = media_chunks
  /\ sox_files = {}
  /\ expected_i = 0
  /\ chunk_files = << >>
  /\ tool_runs = 0
  /\ split_result = SplitNotReturned
  /\ spc = "start"
  /\ DriverIdle
  /\ SplitterIdle
  /\ ModuleIdle
  /\ AggregatorIdle

SpecSplit == InitSplit /\ [][NextSplit]_vars


(* ------------------------------ the claims ----------------------------- *)

Range(seq) == { seq[i] : i \in 1..Len(seq) }

\* the fingerprint modules invoked in this pass, in the order of invocation
fpExecuted == SelectSeq(executed, LAMBDA name : name \in FingerprintNames)

\* the last call of process_file has ended
PassOver == outcome \in {"skipped", "returned", "raised"}

\* the fingerprint phase of the pass is over
FingerprintPhaseOver == pc = "ft" \/ PassOver

\* the document json.load returned at the start of the pass
loadedDoc == load_existing_results(snap.fp)

\* the fingerprint file existed and could not be parsed when the pass started
Unparsable == snap.fp.st \in {"corrupt", "undecodable"}

\* C1: once the fingerprint phase of a pass is over and the fingerprint file
\* held a document or was absent, a module was executed iff it is not a key
\* of the loaded document or is listed in ALWAYS_RUN, and the saved document
\* holds what each executed module returned
C1_ResumabilityRule ==
  (FingerprintPhaseOver /\ ~Unparsable) =>
    \A name \in FingerprintNames :
      /\ name \in Range(executed)
           <=> (loadedDoc[name] = NoKey \/ name \in snap.always)
      /\ (name \in Range(executed) /\ saved) =>
           fpFile[snap.file].doc[name] = returned[name]

\* C1 for the passes that get past the corruption check
C1_RuleForPassesNotSkipped ==
  (FingerprintPhaseOver /\ ~Unparsable /\ outcome # "skipped") =>
    \A name \in FingerprintNames :
      /\ name \in Range(executed)
           <=> (loadedDoc[name] = NoKey \/ name \in snap.always)
      /\ name \in Range(executed) =>
           saved /\ fpFile[snap.file].doc[name] = returned[name]

\* C2: no fingerprint module is invoked after one of this pass returned a
\* top-level error: only the last one invoked may have returned an error
C2_FailFast ==
  \A i \in 1..Len(fpExecuted) :
    returned[fpExecuted[i]].kind = "error" => i = Len(fpExecuted)

\* C3: the fingerprint document is written only in a pass in which at least
\* one module ran and none returned a top-level error
C3_NoSaveAfterError ==
  saved =>
    /\ fpExecuted # << >>
    /\ \A name \in Range(fpExecuted) : returned[name].kind # "error"

\* C4: in a pass that returns, every module whose last outcome for the track
\* was a top-level error has been executed again
C4_ErrorNeverCached ==
  outcome = "returned" =>
    \A name \in AllNames :
      snap.last[name].kind = "error" => name \in Range(executed)

\* C5: a fingerprint file that does not parse when the pass starts keeps its
\* content throughout the pass
C5_CorruptFileUntouched ==
  Unparsable => fpFile[snap.file] = snap.fp

\* a second run has skipped the track again
C5_Witness ==
  /\ outcome = "skipped"
  /\ snap.fp.st = "corrupt"
  /\ run = 2

\* C6: in a pass that starts with a fingerprint file that does not parse, no
\* module is invoked, fingerprint or fulltrack
C6_CorruptTrackSkipped ==
  Unparsable => executed = << >>

\* a skipped track with a fulltrack result missing and modules forced
C6_Witness ==
  /\ outcome = "skipped"
  /\ snap.fp.st = "corrupt"
  /\ \E name \in FulltrackNames : ~os_path_exists(snap.ft[name])
  /\ snap.always # {}

\* C7: a pass with an empty ALWAYS_RUN on a track on which a pass has
\* returned before executes no module and leaves every result file as it was
C7_Idempotent ==
  (snap.completed /\ snap.always = {} /\ outcome # "none") =>
    /\ executed = << >>
    /\ fpFile[snap.file] = snap.fp
    /\ ftFile[snap.file] = snap.ft

\* the second pass over a track whose modules all ran in the first
C7_Witness ==
  /\ outcome = "returned"
  /\ snap.completed
  /\ snap.always = {}
  /\ snap.last["split"].kind = "chunks"
  /\ snap.last["image_fulltrack"].kind = "result"

\* C8: when main ends, every file of the input list was handed to
\* process_file
C8_TrackIsolation ==
  (pc = "idle" /\ run > 0) => processed = Range(input_files)

\* C9: the fingerprint modules of a pass are invoked in the relative order
\* of the declared module list
C9_DeclaredOrder ==
  \A a, b \in 1..Len(fpExecuted) :
    a < b => IndexOf(MODULES_FINGERPRINT, fpExecuted[a])
               < IndexOf(MODULES_FINGERPRINT, fpExecuted[b])

\* a pass over a document that lacks two keys, with four modules forced
C9_Witness ==
  /\ pc = "ft"
  /\ "dynamics" \in snap.always
  /\ loadedDoc["dynamics"] = NoKey
  /\ loadedDoc["image_fingerprint"] # NoKey
  /\ fpExecuted = << "dynamics", "dynamics_full_spectrum", "dynamic_range",
                     "image_fingerprint" >>


\* C10: the list the parallel work splitter returns has the length of the
\* item list and its i-th element is the callback's result for the i-th
\* item, whatever the pool size and the order in which the workers finish
C10_SplitterKeepsOrder ==
  ppc = "returned" =>
    /\ Len(chunk_results) = Len(items)
    /\ \A i \in 1..Len(items) : chunk_results[i] = chunk_callback(i, items[i])

\* a call over three items, two workers, finished out of input order
C10_Witness ==
  /\ ppc = "returned"
  /\ Len(items) = 3
  /\ max_workers = 2
  /\ finished = << 2, 1, 3 >>
  /\ items = << 2, 0, 1 >>

(* ------------- claims about the per-chunk analysis modules ------------- *)

\* process has returned {"result": ...}
ReturnedResult == mpc = "done" /\ process_result.kind = "result"

\* the per-band arrays of a banded module's result
BandArrays == process_result.banded

\* every per-chunk entry of the result
AllEntries ==
  IF module \in BandedModules
  THEN UNION { Range(BandArrays[key]) : key \in DOMAIN BandArrays }
  ELSE Range(process_result.flat)

\* the bands 0..bands-1 of the config have pairwise different keys
DistinctKeys ==
  Cardinality(module_range_keys(module, config)) = band_params(module, config).bands

\* the list the splitter yields when every callback ran on the context as
\* the module built it, each result at the place of its item
ExpectedChunkResults ==
  [i \in 1..Len(items) |-> _chunk_callback(i, items[i], build_context(module, config))]

\* C11: in either execution mode, worker processes or threads, the splitter
\* returns for an item list, callback and context the same list, the
\* callback's result for each item at the item's place, and the module
\* returns the same result built from it
C11_ModeEquivalence ==
  /\ (mpc = "fanout" /\ ppc = "returned") => chunk_results = ExpectedChunkResults
  /\ (ReturnedResult /\ module \in FanOutModules) =>
       process_result =
         IF module \in BandedModules
         THEN BandedResult(distribute(
                empty_output(log_edges(band_params(module, config)),
                             band_params(module, config).bands),
                ExpectedChunkResults))
         ELSE FlatResult(ExpectedChunkResults)

\* harmonics, the module that asks for worker processes, over three chunks
\* that finished out of order
C11_Witness ==
  /\ ReturnedResult
  /\ module = "harmonics"
  /\ use_processes
  /\ Len(items) = 3
  /\ finished[1] # 1
  /\ context.bands > 1

\* a fan-out call in thread mode over the same three chunks
C11_WitnessThreads ==
  /\ ReturnedResult
  /\ module = "harmonics"
  /\ ~use_processes
  /\ Len(items) = 3
  /\ finished[1] # 1

\* C12: in a banded module's result, the i-th entry of every band's array
\* names the i-th chunk of the split entry's chunk list
C12_ChunkOrder ==
  (ReturnedResult /\ module \in BandedModules) =>
    \A key \in DOMAIN BandArrays :
      \A i \in 1..Len(BandArrays[key]) :
        /\ i <= Len(chunk_list)
        /\ BandArrays[key][i].chunk = chunk_list[i]

\* C12 for the configs whose bands have pairwise different keys
C12_ChunkOrderForDistinctKeys ==
  (ReturnedResult /\ module \in BandedModules /\ DistinctKeys) =>
    \A key \in DOMAIN BandArrays :
      /\ Len(BandArrays[key]) = Len(chunk_list)
      /\ \A i \in 1..Len(BandArrays[key]) :
           BandArrays[key][i].chunk = chunk_list[i]

\* the config sets the three multiband keys
ConfigFixesBands ==
  config.low # Missing /\ config.high # Missing /\ config.bands # Missing

\* C13: under a config that sets the three multiband keys, the band keys of
\* a banded module's result are the band keys every other banded module
\* computes for that config
C13_BandKeyDeterminism ==
  (ReturnedResult /\ module \in BandedModules /\ ConfigFixesBands) =>
    \A other \in BandedModules :
      DOMAIN BandArrays = module_range_keys(other, config)

\* dynamics has returned a result with several bands
C13_Witness ==
  /\ ReturnedResult
  /\ module = "dynamics"
  /\ Cardinality(DOMAIN BandArrays) > 1
  /\ DOMAIN BandArrays = module_range_keys("quantization", config)
  /\ Len(chunk_list) > 1

\* the module can analyse what sf.read finds in the chunk
ValidFor(name, audio) ==
  audio = "stereo" \/ (audio = "mono" /\ name \notin StereoModules)

\* exactly one chunk of the list cannot be read, the others are valid
OneUnreadableChunk ==
  \E c \in Range(chunk_list) :
    /\ chunk_audio[c] = "unreadable"
    /\ \A d \in Range(chunk_list) \ {c} : ValidFor(module, chunk_audio[d])

\* C14: with exactly one unreadable chunk among N, a banded module returns a
\* result in which every band's array has N entries, the one at the place of
\* the unreadable chunk with an error string and null numeric fields, the
\* other N-1 without an error
C14_LocalFailureIsolation ==
  (mpc = "done" /\ module \in BandedModules /\ OneUnreadableChunk) =>
    /\ process_result.kind = "result"
    /\ \A key \in DOMAIN BandArrays :
         /\ Len(BandArrays[key]) = Len(chunk_list)
         /\ \A i \in 1..Len(BandArrays[key]) :
              i <= Len(chunk_list) =>
                IF chunk_audio[chunk_list[i]] = "unreadable"
                THEN /\ BandArrays[key][i].error # NoError
                     /\ BandArrays[key][i].metrics = "null"
                ELSE BandArrays[key][i].error = NoError

\* C14 for the configs whose bands have pairwise different keys
C14_IsolationForDistinctKeys ==
  (mpc = "done" /\ module \in BandedModules /\ OneUnreadableChunk /\ DistinctKeys) =>
    /\ process_result.kind = "result"
    /\ \A key \in DOMAIN BandArrays :
         /\ Len(BandArrays[key]) = Len(chunk_list)
         /\ \A i \in 1..Len(BandArrays[key]) :
              IF chunk_audio[chunk_list[i]] = "unreadable"
              THEN /\ BandArrays[key][i].error # NoError
                   /\ BandArrays[key][i].metrics = "null"
              ELSE BandArrays[key][i].error = NoError

\* C15: a per-chunk module invoked on a previous mapping whose split entry
\* is absent, is an error or has no chunks returns the error "Missing or
\* empty split result." at once: no chunk is analysed, none handed to the
\* splitter, no entry computed
C15_FatalDependency ==
  (mpc # "start" /\ chunk_list = << >>) =>
    /\ mpc = "done"
    /\ process_result = ModuleError("Missing or empty split result.")
    /\ output = << >>
    /\ result_list = << >>
    /\ pos = 1
    /\ ppc = "idle"
    /\ dispatched = 0

\* a module returned the error on a split entry that is a top-level error
C15_Witness ==
  /\ mpc = "done"
  /\ previous_split.kind = "error"
  /\ module = "quantization_full_spectrum"
  /\ process_result = ModuleError("Missing or empty split result.")

\* C17: the result of a banded module over N >= 1 chunks under a config
\* with B >= 1 bands has exactly B band keys and N entries in every band
C17_ResultShape ==
  (ReturnedResult /\ module \in BandedModules) =>
    /\ Cardinality(DOMAIN BandArrays) = config.bands
    /\ \A key \in DOMAIN BandArrays : Len(BandArrays[key]) = Len(chunk_list)

\* C17 for the configs whose bands have pairwise different keys
C17_ShapeForDistinctKeys ==
  (ReturnedResult /\ module \in BandedModules /\ DistinctKeys) =>
    /\ Cardinality(DOMAIN BandArrays) = config.bands
    /\ \A key \in DOMAIN BandArrays : Len(BandArrays[key]) = Len(chunk_list)

\* C18: a module invoked on a non-empty chunk list returns a result; in it
\* every chunk has an entry in every band; the entries of a chunk that is
\* not two-channel hold, in a stereo-only module, the error "Not stereo" and
\* null numeric fields and, in any other module, values and no error; the
\* entries of a two-channel chunk hold values and no error
C18_NotStereo ==
  (mpc = "done" /\ chunk_list # << >>) =>
    /\ process_result.kind = "result"
    /\ \A e \in AllEntries :
         /\ (chunk_audio[e.chunk] = "mono" /\ module \in StereoModules) =>
              (e.error = "Not stereo" /\ e.metrics = "null")
         /\ (chunk_audio[e.chunk] = "mono" /\ module \notin StereoModules) =>
              (e.error = NoError /\ e.metrics = "value")
         /\ chunk_audio[e.chunk] = "stereo" =>
              (e.error = NoError /\ e.metrics = "value")
    /\ module \in BandedModules =>
         \A key \in DOMAIN BandArrays : \A c \in Range(chunk_list) :
           \E i \in 1..Len(BandArrays[key]) : BandArrays[key][i].chunk = c

\* stereo_phase over a one-channel chunk, a two-channel one and one that
\* cannot be read
C18_Witness ==
  /\ mpc = "done"
  /\ module = "stereo_phase"
  /\ Len(chunk_list) = 3
  /\ chunk_audio[chunk_list[1]] = "mono"
  /\ chunk_audio[chunk_list[2]] = "stereo"
  /\ chunk_audio[chunk_list[3]] = "unreadable"
  /\ \E e \in AllEntries : e.error = "Not stereo"

(* -------------------- more claims about the driver --------------------- *)

\* the split entry of the in-memory document names at least one chunk
SplitHasChunks ==
  fingerprint_result["split"].kind = "chunks" /\ fingerprint_result["split"].n > 0

\* C16: every fingerprint module after split that a pass invoked was invoked
\* with a split entry that holds a non-empty chunk list, whether the entry
\* was computed in this pass or loaded from the cached document
C16_NoDownstreamOnEmptySplit ==
  (\E i \in 1..Len(fpExecuted) : fpExecuted[i] # "split") => SplitHasChunks

\* C19: the document a pass has written holds every key of the loaded
\* document, the loaded entry of every module the pass did not execute and
\* the returned entry of every module it executed
C19_CompleteSnapshot ==
  saved =>
    \A name \in FingerprintNames :
      /\ loadedDoc[name] # NoKey => fpFile[snap.file].doc[name] # NoKey
      /\ name \notin Range(executed) => fpFile[snap.file].doc[name] = loadedDoc[name]
      /\ name \in Range(executed) => fpFile[snap.file].doc[name] = returned[name]

\* a pass that loaded thirteen entries, recomputed two and wrote all fifteen
C19_Witness ==
  /\ saved
  /\ Keys(loadedDoc) = FingerprintNames \ {"dynamics", "dynamic_range"}
  /\ fpExecuted = << "dynamics", "dynamic_range" >>
  /\ Keys(fpFile[snap.file].doc) = FingerprintNames
  /\ loadedDoc["split"].kind = "chunks"

\* a fingerprint module of this pass returned a top-level error
FingerprintError ==
  \E name \in Range(fpExecuted) : returned[name].kind = "error"

\* the fulltrack modules this pass has to run: no result file, or forced
FulltrackDue ==
  { name \in FulltrackNames :
      ~os_path_exists(snap.ft[name]) \/ name \in snap.always }

\* C20: when a pass in which a fingerprint module returned a top-level
\* error is over, every fulltrack module that had no result file or is in
\* ALWAYS_RUN was executed and its result is in its own file
C20_FulltrackNotAbandoned ==
  (outcome \in {"returned", "raised"} /\ FingerprintError) =>
    \A name \in FulltrackDue :
      /\ name \in Range(executed)
      /\ ftFile[snap.file][name] = JsonResult(returned[name])

\* C20 for the passes that no fulltrack module ended with an exception
C20_NotAbandonedWhenPassReturns ==
  (outcome = "returned" /\ FingerprintError) =>
    \A name \in FulltrackDue :
      /\ name \in Range(executed)
      /\ ftFile[snap.file][name] = JsonResult(returned[name])

(* --------------- claims about the cache and its dependencies ----------- *)

\* the fulltrack module at index i is skipped: its file exists, not forced
fulltrack_skipped(i) ==
  /\ os_path_exists(ftFile[file_path][MODULES_FULLTRACK[i]])
  /\ MODULES_FULLTRACK[i] \notin ALWAYS_RUN

\* the previous mapping the fulltrack module next in turn would be given
fulltrack_previous ==
  combined_previous(fingerprint_result, load_all_fulltrack_results(ftFile[file_path]))

\* C22: when process_file is about to invoke a module, every entry the
\* module reads from previous is a key of the mapping it is given, in the
\* fingerprint loop and in the fulltrack loop
C22_DependenciesPresent ==
  /\ pc = "fp" =>
        Dependencies(fingerprint_modules_to_run[k]) \subseteq Keys(fingerprint_result)
  /\ (pc = "ft" /\ ~fulltrack_skipped(j)) =>
        \A d \in Dependencies(MODULES_FULLTRACK[j]) : fulltrack_previous[d] # NoKey

\* C22 for the fingerprint modules alone
C22_FingerprintDependenciesPresent ==
  pc = "fp" =>
    Dependencies(fingerprint_modules_to_run[k]) \subseteq Keys(fingerprint_result)

\* C23: when a pass over a track whose fingerprint file is absent or parses
\* is over, a fulltrack module was executed iff it had no result file or is
\* in ALWAYS_RUN; the value an executed module returned is in its file, and
\* the fulltrack modules later in the list are given it in previous
C23_FulltrackCacheRule ==
  /\ (PassOver /\ ~Unparsable) =>
        \A name \in FulltrackNames : name \in Range(executed) <=> name \in FulltrackDue
  /\ \A name \in FulltrackNames :
        (name \in Range(executed) /\ returned[name] # Raised) =>
          ftFile[snap.file][name] = JsonResult(returned[name])
  /\ pc = "ft" =>
        \A i \in 1..(j - 1) :
          MODULES_FULLTRACK[i] \in Range(executed) =>
            fulltrack_previous[MODULES_FULLTRACK[i]] = returned[MODULES_FULLTRACK[i]]

\* C23 for the passes that get past the corruption check
C23_RuleForPassesNotSkipped ==
  /\ (outcome \in {"returned", "raised"} /\ ~Unparsable) =>
        \A name \in FulltrackNames : name \in Range(executed) <=> name \in FulltrackDue
  /\ \A name \in FulltrackNames :
        (name \in Range(executed) /\ returned[name] # Raised) =>
          ftFile[snap.file][name] = JsonResult(returned[name])
  /\ pc = "ft" =>
        \A i \in 1..(j - 1) :
          MODULES_FULLTRACK[i] \in Range(executed) =>
            fulltrack_previous[MODULES_FULLTRACK[i]] = returned[MODULES_FULLTRACK[i]]

\* the entries computed from other entries of the document
DependentNames == {"dynamic_range", "audio_quality", "image_fingerprint"}

\* C26: in the document a pass has written, every dependent entry was
\* computed in a pass in which the entries it reads were the ones of this
\* document: when the pass executed one of the modules a dependent module
\* reads, it executed the dependent module too
C26_CacheCoherence ==
  saved =>
    \A name \in DependentNames :
      fpFile[snap.file].doc[name] # NoKey =>
        \A up \in Dependencies(name) :
          up \in Range(executed) => name \in Range(executed)

\* C27: a pass is skipped as corrupted only if the fingerprint file existed
\* and did not parse; in a pass that found a JSON document, the empty
\* object included, every module that is not a key of it is run
C27_SkippedOnlyIfUnparsable ==
  /\ outcome = "skipped" => Unparsable
  /\ (FingerprintPhaseOver /\ snap.fp.st = "json") =>
        \A name \in FingerprintNames :
          loadedDoc[name] = NoKey => name \in Range(executed)

\* C27 for the documents that hold at least one key
C27_HoldsForNonEmptyDocuments ==
  /\ (outcome = "skipped" /\ Keys(loadedDoc) # {}) => Unparsable
  /\ (FingerprintPhaseOver /\ snap.fp.st = "json" /\ Keys(loadedDoc) # {}) =>
        \A name \in FingerprintNames :
          loadedDoc[name] = NoKey => name \in Range(executed)

\* C28: when a pass was interrupted, the fingerprint file of its track holds
\* what it held when the pass started (nothing, if it was absent) or the
\* complete document of the pass
C28_AllOrNothingSave ==
  outcome = "interrupted" =>
    fpFile[snap.file] \in {snap.fp, JsonFile(fingerprint_result)}

(* -------------------------- claims about split ------------------------- *)

\* the strings that are a run of digits
IntegerStrings ==
  UNION { [1..n -> {"1"}] : n \in 1..MaxDuration }

\* the strings that are one to three integers separated by colons
ColonSeparatedIntegers ==
  IntegerStrings
    \cup { a \o << ":" >> \o b : a \in IntegerStrings, b \in IntegerStrings }
    \cup { a \o << ":" >> \o b \o << ":" >> \o c :
             a \in IntegerStrings, b \in IntegerStrings, c \in IntegerStrings }

\* C24: when split.process has returned a chunk list, every chunk file
\* <file>.NNN.<ext> of the media directory is in the list
C24_NoStaleChunks ==
  (spc = "done" /\ split_result.kind = "chunks") =>
    media_chunks \subseteq Range(split_result.chunks)

\* C24 for the calls that find the chunk files 000, 001, ... without a gap
C24_NoStaleChunksWhenContiguous ==
  (spc = "done" /\ split_result.kind = "chunks"
     /\ \A c \in media_before : \A b \in 0..c : b \in media_before) =>
    media_chunks \subseteq Range(split_result.chunks)

\* C25: on a duration that is not one to three colon-separated integers,
\* and on a missing or invalid path of the tool, split.process returns a
\* top-level error at its first step: no exception, no chunk file deleted,
\* the tool not run
C25_MalformedDurationIsAnError ==
  (spc # "start" /\ (duration_str \notin ColonSeparatedIntegers \/ ~sox_path_ok)) =>
    /\ spc = "done"
    /\ split_result.kind = "error"
    /\ media_chunks = media_before
    /\ tool_runs = 0

\* a duration of four parts, with the tool in place and chunk files there
C25_Witness ==
  /\ spc = "done"
  /\ Len(str_split(duration_str)) = 4
  /\ sox_path_ok
  /\ media_before # {}
  /\ split_result = SplitError("Invalid duration format")

(* ------------------------ claims about the aggregators ----------------- *)

\* the two banded results differ in band key set, in the number of entries
\* of a band or in the sequence of chunk names of a band
UpstreamDiffer ==
  \/ DOMAIN first_data # DOMAIN second_data
  \/ \E band \in DOMAIN first_data \cap DOMAIN second_data :
       \/ Len(first_data[band]) # Len(second_data[band])
       \/ \E p \in 1..Len(first_data[band]) :
            first_data[band][p].chunk # second_data[band][p].chunk

C21_WitnessMismatch ==
  /\ apc = "done"
  /\ aggregate.kind = "error"
  /\ DOMAIN first_data = DOMAIN second_data
  /\ \E band \in DOMAIN first_data :
       /\ Len(first_data[band]) = Len(second_data[band])
       /\ chunk_names(first_data[band]) # chunk_names(second_data[band])

\* C30: for every chunk of which harmonics_full_spectrum has an entry with
\* a flatness value, every audio_quality entry of that chunk has that value
\* in its spectral_flatness_ratio field
C30_FlatnessCarried ==
  (apc = "done" /\ aggregator = "audio_quality" /\ aggregate.kind = "result") =>
    \A p \in 1..Len(full_spectrum_data) :
      dict_get(full_spectrum_data[p], "overall_spectral_flatness_ratio") # None =>
        \A band \in DOMAIN aggregate.banded :
          \A q \in 1..Len(aggregate.banded[band]) :
            aggregate.banded[band][q].chunk = full_spectrum_data[p].chunk =>
              aggregate.banded[band][q].spectral_flatness_ratio =
                dict_get(full_spectrum_data[p], "overall_spectral_flatness_ratio")

\* the same for dynamic_range and the crest factor of dynamics_full_spectrum
C30_CrestFactorCarried ==
  (apc = "done" /\ aggregator = "dynamic_range" /\ aggregate.kind = "result") =>
    \A p \in 1..Len(full_spectrum_data) :
      dict_get(full_spectrum_data[p], "avg_crest_factor_db") # None =>
        \A band \in DOMAIN aggregate.banded :
          \A q \in 1..Len(aggregate.banded[band]) :
            aggregate.banded[band][q].chunk = full_spectrum_data[p].chunk =>
              aggregate.banded[band][q].overall_avg_crest_factor_db =
                dict_get(full_spectrum_data[p], "avg_crest_factor_db")

(* --------------------- claims about the band parameters ---------------- *)

\* C29: for every config, the keys it leaves out included, every banded
\* module derives the same (low, high, bands) as the module that was
\* called, and the result has the band keys any of them computes
C29_SameBandParameters ==
  (module \in BandedModules /\ mpc = "done" /\ process_result.kind = "result") =>
    \A other \in BandedModules :
      /\ band_params(other, config) = band_params(module, config)
      /\ DOMAIN process_result.banded = module_range_keys(other, config)

\* C29 for the configs that set the three keys
C29_SameWhenKeysAreSet ==
  (config \in Configs /\ module \in BandedModules /\ mpc = "done"
     /\ process_result.kind = "result") =>
    \A other \in BandedModules :
      /\ band_params(other, config) = band_params(module, config)
      /\ DOMAIN process_result.banded = module_range_keys(other, config)

====
